---- MODULE Spec2Model ----
(***************************************************************************)
(* Model of the Go package "elist" (src/elist.go): an error-message stack. *)
(*                                                                         *)
(* The heap of Elist nodes is a sequence: node i lives at address i, the   *)
(* nil pointer is address 0.  A Go interface value (an "error" argument or *)
(* the "value" field of a node) is a record tagged with its dynamic type.  *)
(* A Go string is a sequence of one-character strings.                     *)
(***************************************************************************)
EXTENDS Integers, Sequences, FiniteSets, TLC

\* Largest number of Elist nodes the heap may hold.
MaxNodes == 3

\* The message strings callers pass: one plain, one containing a newline.
Msgs == {<<"a">>, <<"\n">>}

\* Errors of other packages (anything implementing "error" that is not an
\* *Elist), named by an identifier, and the text their Error() method returns.
\* They are plain errors: non-nil values that do not implement fmt.Formatter,
\* so %v prints what Error() returns.
ForeignErrors == {"eof", "multi"}

ForeignText(f) == IF f = "eof" THEN <<"E", "O", "F">> ELSE <<"x", "\n", "y">>

\* Format strings passed to Newf and Pushf.
Formats == {<<"%", "s">>}

----------------------------------------------------------------------------
(* Go values *)

\* The nil pointer of type *Elist.
NilPtr == 0

\* The nil interface value (no dynamic type).
NilInterface == [type |-> "nil"]

StringValue(s) == [type |-> "string", str |-> s]

IntValue(n) == [type |-> "int", int |-> n]

\* An error interface holding a pointer of type *Elist (possibly the nil pointer).
ElistError(p) == [type |-> "*Elist", ptr |-> p]

\* An error interface holding an error of another package.
ForeignError(f) == [type |-> "foreign", err |-> f]

\* Argument lists passed to Newf and Pushf: one string operand.
ArgLists == {<<StringValue(m)>> : m \in Msgs}

\* new(Elist): a zeroed node.
ZeroElist == [next |-> NilPtr, value |-> NilInterface]

----------------------------------------------------------------------------
(* fmt *)

Digit == <<"0", "1", "2", "3", "4", "5", "6", "7", "8", "9">>

\* %d of a non-negative int.
RECURSIVE Decimal(_)
Decimal(n) ==
    IF n < 10 THEN <<Digit[n + 1]>>
    ELSE Decimal(n \div 10) \o <<Digit[(n % 10) + 1]>>

TypeName(a) ==
    IF a.type = "string" THEN <<"s", "t", "r", "i", "n", "g">>
    ELSE <<"i", "n", "t">>

\* %v of an operand.
DefaultText(a) == IF a.type = "string" THEN a.str ELSE Decimal(a.int)

\* One operand under one verb; a verb the operand's type does not accept
\* prints as %!verb(type=value).
FormatArg(verb, a) ==
    IF verb = "v" \/ (verb = "s" /\ a.type = "string") \/ (verb = "d" /\ a.type = "int")
    THEN DefaultText(a)
    ELSE <<"%", "!", verb, "(">> \o TypeName(a) \o <<"=">> \o DefaultText(a) \o <<")">>

RECURSIVE ExtraList(_)
ExtraList(args) ==
    IF args = <<>> THEN <<>>
    ELSE TypeName(Head(args)) \o <<"=">> \o DefaultText(Head(args))
         \o (IF Len(args) > 1 THEN <<",", " ">> ELSE <<>>) \o ExtraList(Tail(args))

\* Operands left over when the format is exhausted.
Extra(args) ==
    IF args = <<>> THEN <<>>
    ELSE <<"%", "!", "(", "E", "X", "T", "R", "A", " ">> \o ExtraList(args) \o <<")">>

Missing(verb) == <<"%", "!", verb, "(", "M", "I", "S", "S", "I", "N", "G", ")">>

NoVerb == <<"%", "!", "(", "N", "O", "V", "E", "R", "B", ")">>

\* fmt.Sprintf for formats built from literal text, %% and one-letter verbs,
\* over string and int operands.
RECURSIVE Sprintf(_, _)
Sprintf(format, args) ==
    IF format = <<>> THEN Extra(args)
    ELSE IF Head(format) # "%" THEN <<Head(format)>> \o Sprintf(Tail(format), args)
    ELSE IF Len(format) = 1 THEN NoVerb \o Extra(args)
    ELSE LET verb == format[2]
             rest == SubSeq(format, 3, Len(format))
         IN  IF verb = "%" THEN <<"%">> \o Sprintf(rest, args)
             ELSE IF args = <<>> THEN Missing(verb) \o Sprintf(rest, args)
             ELSE FormatArg(verb, Head(args)) \o Sprintf(rest, Tail(args))

\* fmt.Sprint of a single string operand.
Sprint(s) == s

----------------------------------------------------------------------------
(* Elist.Error *)

\* ": \"%s\""
FmtString == <<":", " ", "\"", "%", "s", "\"">>

\* ": \"%v\""
FmtError == <<":", " ", "\"", "%", "v", "\"">>

\* ": [error == nil]"
TxtNil == <<":", " ", "[", "e", "r", "r", "o", "r", " ", "=", "=", " ", "n", "i", "l", "]">>

\* ": [Unrecognized error] \"%v\""
FmtUnrecognized ==
    <<":", " ", "[", "U", "n", "r", "e", "c", "o", "g", "n", "i", "z", "e", "d", " ",
      "e", "r", "r", "o", "r", "]", " ", "\"", "%", "v", "\"">>

\* "Error %d%s.\n"
FmtLine == <<"E", "r", "r", "o", "r", " ", "%", "d", "%", "s", ".", "\n">>

\* What the walk of a chain that never reaches nil yields: the loop of
\* Elist.Error does not return.
Diverges == <<"<no return>">>

\* The text fmt obtains from an error operand under %v: its Error() method.
\* A node's value never holds an *Elist (Push stores e only when e is not one).
ErrorMethod(x) == ForeignText(x.err)

\* The type switch of Elist.Error on one node's value.
NodeMsg(x) ==
    CASE x.type = "string" -> Sprintf(FmtString, <<x>>)
      [] x.type = "foreign" -> Sprintf(FmtError, <<StringValue(ErrorMethod(x))>>)
      [] x.type = "nil" -> Sprint(TxtNil)
      [] OTHER -> Sprintf(FmtUnrecognized, <<x>>)

\* Variant of ErrorLoop: the counter is not incremented ("n += 1" lost).
RECURSIVE ErrorLoop_noinc(_, _, _, _, _)
ErrorLoop_noinc(h, q, n, str, fuel) ==
    IF q = NilPtr THEN str
    ELSE IF fuel = 0 THEN Diverges
    ELSE ErrorLoop_noinc(h, h[q].next, n,
                   str \o Sprintf(FmtLine, <<IntValue(n), StringValue(NodeMsg(h[q].value))>>),
                   fuel - 1)

\* The loop of Elist.Error from node q with counter n and accumulated str.
\* fuel bounds the walk by the number of nodes: a longer walk is on a cycle.
RECURSIVE ErrorLoop(_, _, _, _, _)
ErrorLoop(h, q, n, str, fuel) ==
    IF q = NilPtr THEN str
    ELSE IF fuel = 0 THEN Diverges
    ELSE ErrorLoop(h, h[q].next, n + 1,
                   str \o Sprintf(FmtLine, <<IntValue(n), StringValue(NodeMsg(h[q].value))>>),
                   fuel - 1)

\* Variant of Error: the counter starts at 0 ("var n int = 0").
Error_fromzero(h, p) ==
    IF p = NilPtr THEN <<>>
    ELSE ErrorLoop(h, p, 0, <<>>, Len(h))

\* Variant of Error: a nil receiver is reported like a nil payload.
Error_nilline(h, p) ==
    IF p = NilPtr THEN Sprintf(FmtLine, <<IntValue(1), StringValue(Sprint(TxtNil))>>)
    ELSE ErrorLoop(h, p, 1, <<>>, Len(h))

\* (p *Elist) Error() on heap h.
Error(h, p) ==
    IF p = NilPtr THEN <<>>
    ELSE ErrorLoop(h, p, 1, <<>>, Len(h))

----------------------------------------------------------------------------
(* Constructors: each returns the new heap and the returned error value *)

\* Variant of New: "p.value = s" lost.
New_novalue(h, s) ==
    LET p  == Len(h) + 1
        h1 == Append(h, ZeroElist)
    IN  [heap |-> h1, ret |-> ElistError(p)]

\* New(s).  new(Elist) never yields nil, so the "if p == nil" branch is dead.
New(h, s) ==
    LET p  == Len(h) + 1
        h1 == Append(h, ZeroElist)
        h2 == [h1 EXCEPT ![p].value = StringValue(s)]
    IN  [heap |-> h2, ret |-> ElistError(p)]

\* Newf(format, args...)
Newf(h, format, args) == New(h, Sprintf(format, args))

\* Variant of Push: the new node is linked behind the old head ("p.next = q.next").
Push_skiphead(h, e, s) ==
    LET p  == Len(h) + 1
        h1 == Append(h, ZeroElist)
        h2 == [h1 EXCEPT ![p].value = StringValue(s)]
    IN  IF e = NilInterface THEN [heap |-> h2, ret |-> ElistError(p)]
        ELSE LET ok == e.type = "*Elist"
                 q  == IF ok THEN e.ptr ELSE Len(h2) + 1
                 h3 == IF ok THEN h2
                       ELSE [Append(h2, ZeroElist) EXCEPT ![q].value = e]
                 h4 == [h3 EXCEPT ![p].next = IF q = NilPtr THEN NilPtr ELSE h3[q].next]
             IN  [heap |-> h4, ret |-> ElistError(p)]

\* Variant of Push: the foreign error's text is stored, not the error
\* ("q.value = e.Error()").
Push_textonly(h, e, s) ==
    LET p  == Len(h) + 1
        h1 == Append(h, ZeroElist)
        h2 == [h1 EXCEPT ![p].value = StringValue(s)]
    IN  IF e = NilInterface THEN [heap |-> h2, ret |-> ElistError(p)]
        ELSE LET ok == e.type = "*Elist"
                 q  == IF ok THEN e.ptr ELSE Len(h2) + 1
                 h3 == IF ok THEN h2
                       ELSE [Append(h2, ZeroElist) EXCEPT
                                ![q].value = StringValue(ErrorMethod(e))]
                 h4 == [h3 EXCEPT ![p].next = q]
             IN  [heap |-> h4, ret |-> ElistError(p)]

\* Variant of Push: the old head is copied into a fresh node and the copy linked.
Push_copy(h, e, s) ==
    LET p  == Len(h) + 1
        h1 == Append(h, ZeroElist)
        h2 == [h1 EXCEPT ![p].value = StringValue(s)]
    IN  IF e = NilInterface THEN [heap |-> h2, ret |-> ElistError(p)]
        ELSE LET ok == e.type = "*Elist"
                 q  == IF ok /\ e.ptr = NilPtr THEN NilPtr ELSE Len(h2) + 1
                 h3 == IF ok
                       THEN (IF e.ptr = NilPtr THEN h2 ELSE Append(h2, h2[e.ptr]))
                       ELSE [Append(h2, ZeroElist) EXCEPT ![q].value = e]
                 h4 == [h3 EXCEPT ![p].next = q]
             IN  [heap |-> h4, ret |-> ElistError(p)]

\* Variant of Push: the "if e == nil" return lost, so a nil error is wrapped
\* like a foreign one.
Push_nonilcheck(h, e, s) ==
    LET p  == Len(h) + 1
        h1 == Append(h, ZeroElist)
        h2 == [h1 EXCEPT ![p].value = StringValue(s)]
        ok == e.type = "*Elist"
        q  == IF ok THEN e.ptr ELSE Len(h2) + 1
        h3 == IF ok THEN h2
              ELSE [Append(h2, ZeroElist) EXCEPT ![q].value = e]
        h4 == [h3 EXCEPT ![p].next = q]
    IN  [heap |-> h4, ret |-> ElistError(p)]

\* Variant of Push: the new node is linked to itself ("p.next = p").
Push_selflink(h, e, s) ==
    LET p  == Len(h) + 1
        h1 == Append(h, ZeroElist)
        h2 == [h1 EXCEPT ![p].value = StringValue(s)]
    IN  IF e = NilInterface THEN [heap |-> h2, ret |-> ElistError(p)]
        ELSE LET ok == e.type = "*Elist"
                 q  == IF ok THEN e.ptr ELSE Len(h2) + 1
                 h3 == IF ok THEN h2
                       ELSE [Append(h2, ZeroElist) EXCEPT ![q].value = e]
                 h4 == [h3 EXCEPT ![p].next = p]
             IN  [heap |-> h4, ret |-> ElistError(p)]

\* Push(e, s)
Push(h, e, s) ==
    LET p  == Len(h) + 1
        h1 == Append(h, ZeroElist)
        h2 == [h1 EXCEPT ![p].value = StringValue(s)]
    IN  IF e = NilInterface THEN [heap |-> h2, ret |-> ElistError(p)]
        ELSE LET ok == e.type = "*Elist"
                 q  == IF ok THEN e.ptr ELSE Len(h2) + 1
                 h3 == IF ok THEN h2
                       ELSE [Append(h2, ZeroElist) EXCEPT ![q].value = e]
                 h4 == [h3 EXCEPT ![p].next = q]
             IN  [heap |-> h4, ret |-> ElistError(p)]

\* Pushf(e, format, args...)
Pushf(h, e, format, args) == Push(h, e, Sprintf(format, args))

\* Number of nodes Push(e, _) allocates.
PushCost(e) == IF e.type = "foreign" THEN 2 ELSE 1

----------------------------------------------------------------------------
(* State *)

VARIABLES
    heap,   \* the Elist nodes allocated so far
    op,     \* the last call: "New", "Newf", "Push", "Pushf", "Error" ("" initially)
    arg_e,  \* its error argument (Push, Pushf) or receiver (Error)
    arg_s,  \* the message string handed to New or Push
    ret,    \* the error returned by New, Newf, Push, Pushf
    str,    \* the string returned by Error
    pushes, \* history: pushes[i] = n when node i was returned by the n-th of n
            \* Push/Pushf calls in a row that started from the nil error, else 0
    memo    \* history: receiver and result of the first Error call (ptr -1: none
            \* yet), and whether Error has been called on that receiver again

vars == <<heap, op, arg_e, arg_s, ret, str, pushes, memo>>

\* The *Elist pointers a caller can hold: every pointer a constructor has
\* returned (the nodes holding a string; a node wrapping a foreign error is
\* never returned), and the nil *Elist.
Held == {NilPtr} \cup {i \in 1..Len(heap) : heap[i].value.type = "string"}

\* The error values a caller can pass to Push and Pushf.
Errors ==
    {NilInterface} \cup {ElistError(p) : p \in Held} \cup {ForeignError(f) : f \in ForeignErrors}

\* The history after a call that left heap h2 and returned r: n for the node
\* returned, 0 for any other node the call allocated.
Extend(h2, r, n) ==
    [i \in 1..Len(h2) |->
        IF i <= Len(pushes) THEN pushes[i] ELSE IF i = r.ptr THEN n ELSE 0]

\* Position of a Push(e, _) in a row of pushes that started from the nil error.
PushCount(e) ==
    IF e = NilInterface THEN 1
    ELSE IF e.type = "*Elist" /\ e.ptr \in 1..Len(pushes) /\ pushes[e.ptr] > 0
         THEN pushes[e.ptr] + 1
         ELSE 0

Init ==
    /\ heap = <<>>
    /\ op = ""
    /\ arg_e = NilInterface
    /\ arg_s = <<>>
    /\ ret = NilInterface
    /\ str = <<>>
    /\ pushes = <<>>
    /\ memo = [ptr |-> -1, text |-> <<>>, again |-> FALSE]

CallNew ==
    \E s \in Msgs :
        /\ Len(heap) + 1 <= MaxNodes
        /\ LET r == New(heap, s)
           IN  /\ heap' = r.heap
               /\ ret' = r.ret
        /\ op' = "New"
        /\ arg_e' = NilInterface
        /\ arg_s' = s
        /\ str' = <<>>
        /\ pushes' = Extend(heap', ret', 0)
        /\ UNCHANGED memo

CallNewf ==
    \E format \in Formats, args \in ArgLists :
        /\ Len(heap) + 1 <= MaxNodes
        /\ LET r == Newf(heap, format, args)
           IN  /\ heap' = r.heap
               /\ ret' = r.ret
        /\ op' = "Newf"
        /\ arg_e' = NilInterface
        /\ arg_s' = Sprintf(format, args)
        /\ str' = <<>>
        /\ pushes' = Extend(heap', ret', 0)
        /\ UNCHANGED memo

CallPush ==
    \E e \in Errors, s \in Msgs :
        /\ Len(heap) + PushCost(e) <= MaxNodes
        /\ LET r == Push(heap, e, s)
           IN  /\ heap' = r.heap
               /\ ret' = r.ret
        /\ op' = "Push"
        /\ arg_e' = e
        /\ arg_s' = s
        /\ str' = <<>>
        /\ pushes' = Extend(heap', ret', PushCount(e))
        /\ UNCHANGED memo

CallPushf ==
    \E e \in Errors, format \in Formats, args \in ArgLists :
        /\ Len(heap) + PushCost(e) <= MaxNodes
        /\ LET r == Pushf(heap, e, format, args)
           IN  /\ heap' = r.heap
               /\ ret' = r.ret
        /\ op' = "Pushf"
        /\ arg_e' = e
        /\ arg_s' = Sprintf(format, args)
        /\ str' = <<>>
        /\ pushes' = Extend(heap', ret', PushCount(e))
        /\ UNCHANGED memo

\* Variant of CallError: rendering clears the payload of the node it starts from.
CallError_consume ==
    \E p \in Held :
        /\ str' = Error(heap, p)
        /\ op' = "Error"
        /\ arg_e' = ElistError(p)
        /\ arg_s' = <<>>
        /\ ret' = NilInterface
        /\ memo' = IF memo.ptr = -1
                   THEN [ptr |-> p, text |-> Error(heap, p), again |-> FALSE]
                   ELSE [memo EXCEPT !.again = @ \/ p = memo.ptr]
        /\ heap' = IF p = NilPtr THEN heap ELSE [heap EXCEPT ![p].value = NilInterface]
        /\ UNCHANGED pushes

\* A caller renders an error it holds.  Elist.Error assigns to no field.
CallError ==
    \E p \in Held :
        /\ str' = Error(heap, p)
        /\ op' = "Error"
        /\ arg_e' = ElistError(p)
        /\ arg_s' = <<>>
        /\ ret' = NilInterface
        /\ memo' = IF memo.ptr = -1
                   THEN [ptr |-> p, text |-> Error(heap, p), again |-> FALSE]
                   ELSE [memo EXCEPT !.again = @ \/ p = memo.ptr]
        /\ UNCHANGED <<heap, pushes>>

Next == CallNew \/ CallNewf \/ CallPush \/ CallPushf \/ CallError

Spec == Init /\ [][Next]_vars

----------------------------------------------------------------------------
(* Vocabulary of the properties *)

PushOps == {"Push", "Pushf"}

NewOps == {"New", "Newf"}

\* The addresses met walking from q along next, at most fuel of them.
RECURSIVE Chain(_, _, _)
Chain(h, q, fuel) ==
    IF q = NilPtr \/ fuel = 0 THEN <<>>
    ELSE <<q>> \o Chain(h, h[q].next, fuel - 1)

\* The nodes of the chain whose head is p, head first.  A walk of more than
\* Len(h) nodes is on a cycle.
Nodes(h, p) == Chain(h, p, Len(h) + 1)

\* The text a payload stands for: the message, or the foreign error's
\* own description.
PayloadText(x) ==
    CASE x.type = "string" -> x.str
      [] x.type = "foreign" -> ForeignText(x.err)
      [] OTHER -> <<>>

\* The payload texts of the chain whose head is p, head first.
Texts(h, p) ==
    LET ns == Nodes(h, p)
    IN  [k \in 1..Len(ns) |-> PayloadText(h[ns[k]].value)]

\* Error n: "text".  and a newline
ExpectedLine(n, text) ==
    <<"E", "r", "r", "o", "r", " ">> \o Decimal(n) \o <<":", " ", "\"">>
        \o text \o <<"\"", ".", "\n">>

\* The lines for texts, numbered first, first + 1, ...
RECURSIVE Numbered(_, _)
Numbered(texts, first) ==
    IF texts = <<>> THEN <<>>
    ELSE ExpectedLine(first, Head(texts)) \o Numbered(Tail(texts), first + 1)

\* Number of newline characters in s.
CountNewlines(s) == Cardinality({i \in 1..Len(s) : s[i] = "\n"})

RECURSIVE SumNewlines(_)
SumNewlines(texts) ==
    IF texts = <<>> THEN 0
    ELSE CountNewlines(Head(texts)) + SumNewlines(Tail(texts))

Contains(s, pat) ==
    \E i \in 1..(Len(s) - Len(pat) + 1) :
        s[i] = pat[1] /\ SubSeq(s, i, i + Len(pat) - 1) = pat

\* "[error == nil]"
NilMark == <<"[", "e", "r", "r", "o", "r", " ", "=", "=", " ", "n", "i", "l", "]">>

\* "[Unrecognized error]"
UnrecognizedMark ==
    <<"[", "U", "n", "r", "e", "c", "o", "g", "n", "i", "z", "e", "d", " ",
      "e", "r", "r", "o", "r", "]">>

\* Some node is the next of two different nodes: a chain was pushed onto twice.
SharedTail ==
    \E i, j \in 1..Len(heap) :
        i # j /\ heap[i].next # NilPtr /\ heap[i].next = heap[j].next

----------------------------------------------------------------------------
(* Properties *)

\* C1: a Push onto an existing chain c renders as the line for the new
\* message at position 1 followed by the lines of c in their order, each
\* numbered one higher than in the rendering of c.
C1_PushPrepends ==
    [][ (op' \in PushOps /\ arg_e'.type = "*Elist" /\ arg_e'.ptr # NilPtr) =>
            LET c     == arg_e'.ptr
                lines == Texts(heap, c)
            IN  /\ Error(heap, c) = Numbered(lines, 1)
                /\ ret'.type = "*Elist"
                /\ Error(heap', ret'.ptr) = ExpectedLine(1, arg_s') \o Numbered(lines, 2)
      ]_vars

C1_Witness ==
    /\ op \in PushOps
    /\ arg_e.type = "*Elist"
    /\ arg_e.ptr # NilPtr
    /\ Len(Nodes(heap, ret.ptr)) = 3

\* C2: New(s) returns one node holding the string s with a nil next, and it
\* renders as exactly  Error 1: "s".  followed by one newline.
C2_NewSingleLine ==
    op \in NewOps =>
        /\ ret.type = "*Elist"
        /\ ret.ptr \in 1..Len(heap)
        /\ heap[ret.ptr] = [next |-> NilPtr, value |-> StringValue(arg_s)]
        /\ Error(heap, ret.ptr) =
               <<"E", "r", "r", "o", "r", " ", "1", ":", " ", "\"">> \o arg_s
                   \o <<"\"", ".", "\n">>

C2_Witness == op = "New" /\ arg_s = <<"a">> /\ Len(heap) >= 2

\* C3: a Push onto a foreign error e allocates two nodes, the head holding
\* the message and pointing at a new node that holds e itself and has a nil
\* next; it renders as the line for the message at position 1 and the line
\* quoting e's own description at position 2.
C3_PushAdoptsForeign ==
    [][ (op' \in PushOps /\ arg_e'.type = "foreign") =>
            /\ Len(heap') = Len(heap) + 2
            /\ ret'.type = "*Elist"
            /\ ret'.ptr \in (Len(heap) + 1)..Len(heap')
            /\ LET p == ret'.ptr
                   q == heap'[p].next
               IN  /\ q \in (Len(heap) + 1)..Len(heap')
                   /\ q # p
                   /\ heap'[p].value = StringValue(arg_s')
                   /\ heap'[q] = [next |-> NilPtr, value |-> arg_e']
                   /\ Nodes(heap', p) = <<p, q>>
                   /\ Error(heap', p) =
                          ExpectedLine(1, arg_s') \o ExpectedLine(2, ForeignText(arg_e'.err))
      ]_vars

C3_Witness == op \in PushOps /\ arg_e = ForeignError("eof") /\ Len(heap) = 3

\* C4: the head returned by the n-th of n pushes in a row that started from
\* the nil error has a chain of exactly n nodes, and it renders as n lines
\* numbered 1, 2, ..., n from head to tail; Error ends each of the n lines
\* with one newline and adds no other (the messages are copied as they are).
C4_SequentialPushes ==
    \A i \in 1..Len(heap) :
        (i <= Len(pushes) /\ pushes[i] > 0) =>
            LET texts == Texts(heap, i)
            IN  /\ Len(Nodes(heap, i)) = pushes[i]
                /\ Len(texts) = pushes[i]
                /\ Error(heap, i) = Numbered(texts, 1)
                /\ CountNewlines(Error(heap, i)) = pushes[i] + SumNewlines(texts)

C4_Witness == \E i \in 1..Len(heap) : pushes[i] = 3

\* C5: a Push onto an existing chain c allocates one node, whose next is
\* the head of c; it changes no node that existed, and every chain held
\* before renders to the same text after it.
C5_PushSharesTail ==
    [][ (op' \in PushOps /\ arg_e'.type = "*Elist" /\ arg_e'.ptr # NilPtr) =>
            /\ Len(heap') = Len(heap) + 1
            /\ ret' = ElistError(Len(heap'))
            /\ heap'[Len(heap')].next = arg_e'.ptr
            /\ \A i \in 1..Len(heap) : heap'[i] = heap[i]
            /\ \A p \in Held : Error(heap', p) = Error(heap, p)
      ]_vars

C5_Witness ==
    /\ op \in PushOps
    /\ arg_e.type = "*Elist"
    /\ arg_e.ptr # NilPtr
    /\ \E j \in 1..Len(heap) : j # ret.ptr /\ heap[j].next = arg_e.ptr

\* C6: a Push onto the nil error does what New does: it leaves the heap New
\* would leave, returns what New would return (one node holding the message,
\* nil next), and the two render alike.
C6_PushNilLikeNew ==
    [][ (op' \in PushOps /\ arg_e' = NilInterface) =>
            LET n == New(heap, arg_s')
            IN  /\ heap' = n.heap
                /\ ret' = n.ret
                /\ heap'[ret'.ptr] = [next |-> NilPtr, value |-> StringValue(arg_s')]
                /\ Error(heap', ret'.ptr) = Error(n.heap, n.ret.ptr)
      ]_vars

C6_Witness == op = "Push" /\ arg_e = NilInterface /\ Len(heap) >= 2

\* C7: an Error call changes no node, and it returns the text the first
\* Error call on the same receiver returned, whatever was called in between.
C7_ErrorReadsOnly ==
    [][ op' = "Error" =>
            /\ heap' = heap
            /\ (memo.ptr = arg_e'.ptr => str' = memo.text)
      ]_vars

C7_Witness ==
    /\ op = "Error"
    /\ memo.again
    /\ memo.ptr = arg_e.ptr
    /\ memo.ptr # NilPtr
    /\ Len(heap) > Len(Nodes(heap, memo.ptr))

\* C8: Error on the nil *Elist returns the empty string.
C8_NilRendersEmpty ==
    (op = "Error" /\ arg_e = ElistError(NilPtr)) => str = <<>>

C8_Witness == op = "Error" /\ arg_e = ElistError(NilPtr) /\ Len(heap) >= 1

\* C9: no node is reachable from itself along next, every chain ends within
\* as many steps as there are nodes, and Error returns on every chain.
C9_Acyclic ==
    \A p \in 1..Len(heap) :
        LET after == Nodes(heap, heap[p].next)
        IN  /\ \A k \in 1..Len(after) : after[k] # p
            /\ Len(after) < Len(heap)
            /\ Error(heap, p) # Diverges

C9_Witness == op = "Error" /\ str # <<>> /\ SharedTail

\* C10: every node holds a string or a foreign error, and no rendering has
\* an "[error == nil]" or an "[Unrecognized error]" line.
C10_PayloadKinds ==
    /\ \A i \in 1..Len(heap) : heap[i].value.type \in {"string", "foreign"}
    /\ \A p \in 1..Len(heap) :
        LET text == Error(heap, p)
        IN  ~Contains(text, NilMark) /\ ~Contains(text, UnrecognizedMark)

C10_Witness ==
    /\ op = "Error"
    /\ arg_e.ptr # NilPtr
    /\ Len(Nodes(heap, arg_e.ptr)) = 3
    /\ \E i \in 1..Len(heap) : heap[i].value.type = "foreign"

====
